---- MODULE Spec2Model ----
(***************************************************************************)
(* Model of daemon/controller.py (class RGBd): the pidfile, the double     *)
(* fork of daemonize(), the signal handlers cleanup() and reload(), and    *)
(* the commands start(), stop() and restart(), run by several command-line *)
(* processes against one pidfile path.                                     *)
(*                                                                         *)
(* One action is one system call (or one blocking call) of the code with   *)
(* the local branching that follows it.  A signal handler runs before the  *)
(* interrupted process executes anything else, as CPython runs it at the   *)
(* next bytecode boundary.  Neither handler ever returns to the code it    *)
(* interrupted: cleanup() ends in sys.exit(0) or an exception, and the     *)
(* call of reload() as a handler, with the two arguments a handler gets,   *)
(* raises.  So the delivery of a signal is a jump.                         *)
(***************************************************************************)
EXTENDS Integers, Sequences, FiniteSets, TLC

\* ---------------------------------------------------------------- bounds
\* Command-line invocations made against the pidfile path.
NumProcs == 2
\* Signals an operator sends to daemons (beyond those stop() sends).
MaxSignals == 1

Procs == 1..NumProcs

\* ------------------------------------------------------- the environment
\* A PID no process has: what a crashed daemon leaves in its pidfile.
StalePid == 4242
\* A live process of another user (init): signalling it is refused unless
\* the caller is root, and it does not exit on SIGTERM.
ForeignPid == 1
\* The PID of the process that currently executes slot i: distinct for
\* every slot and every fork.
PidOf(i, g) == 100 * i + g

VARIABLES
    do_daemonize,   \* self.do_daemonize
    blank_on_exit,  \* self.blank_on_exit
    root,           \* os.getuid() == 0 or os.geteuid() == 0 or os.getgid() == 0
    pidfile,        \* the file at self.daemon_pidfile
    pidfile0,       \* the pidfile before any command was run
    pc,             \* per process: the statement it is at
    restart,        \* per process: stop()'s restart argument / inside restart()
    gen,            \* per process: forks done so far (names its PID)
    rd,             \* per process: the local variable pid of start()/stop()
    bound,          \* per process: signal handlers installed
    listener,       \* per process: self.listener_thread
    strip,          \* per process: self.strip exists
    pend,           \* per process: signals delivered, handler not yet run
    log,            \* per process: what it did that can be observed, in order
    sigBudget       \* operator signals left

vars == <<do_daemonize, blank_on_exit, root, pidfile, pidfile0, pc, restart, gen, rd,
          bound, listener, strip, pend, log, sigBudget>>

\* ---------------------------------------------------------- the pidfile
NL == "\n"
DigitChar == <<"0", "1", "2", "3", "4", "5", "6", "7", "8", "9">>
Absent == [exists |-> FALSE, text |-> <<>>]
File(t) == [exists |-> TRUE, text |-> t]

RECURSIVE Digits(_)
\* str(n) for n >= 0
Digits(n) ==
    IF n < 10 THEN <<DigitChar[n + 1]>>
    ELSE Digits(n \div 10) \o <<DigitChar[(n % 10) + 1]>>

\* "{}\n".format(pid)
FormatPid(p) == Digits(p) \o <<NL>>

IsSpace(c) == c \in {NL, " ", "\t"}

RECURSIVE LStrip(_)
LStrip(s) == IF s # <<>> /\ IsSpace(Head(s)) THEN LStrip(Tail(s)) ELSE s

RECURSIVE RStrip(_)
RStrip(s) ==
    IF s # <<>> /\ IsSpace(s[Len(s)]) THEN RStrip(SubSeq(s, 1, Len(s) - 1))
    ELSE s

\* str.strip()
StrStrip(s) == LStrip(RStrip(s))

DigitVal(c) == CHOOSE d \in 0..9 : DigitChar[d + 1] = c

RECURSIVE ToInt(_)
ToInt(s) ==
    IF s = <<>> THEN 0
    ELSE 10 * ToInt(SubSeq(s, 1, Len(s) - 1)) + DigitVal(s[Len(s)])

\* The value of the local variable pid after the try/except that opens and
\* parses the pidfile: None when the file does not exist.
NoneVal == -1
ReadPid(f) == IF f.exists THEN ToInt(StrStrip(f.text)) ELSE NoneVal

\* Mutant: the test on pid inverted.
TruthyInverted(p) == ~(p # NoneVal /\ p # 0)

\* Python truth of the local variable pid: None and 0 are false.
Truthy(p) == p # NoneVal /\ p # 0

\* ------------------------------------------------------------ processes
Terminal == {"exit0", "exit1", "raised", "returned", "killed"}
Alive(i) == pc[i] \notin Terminal /\ pc[i] # "idle"
\* os.getpid() in the process that executes slot i
Pid(i) == PidOf(i, gen[i])
\* The slot whose live process has PID p, if any.
LiveProcs(p) == {j \in Procs : Alive(j) /\ Pid(j) = p}

\* self.listener_thread: "unset" until run() assigns it; "alive" once
\* started; after SIGINT it is either on its way out ("stopping") or not
\* reacting ("deaf"); "exited" once it has ended and was reaped;
\* "killed" after SIGKILL and before it is reaped.
ListenerStates == {"unset", "alive", "stopping", "deaf", "exited", "killed"}
ChildLive == {"alive", "stopping", "deaf"}

\* multiprocessing.Process(..., daemon=True): a child that is still running
\* when its parent leaves the interpreter is terminated by the parent.
AtExit(l) == IF l \in ChildLive THEN "exited" ELSE l

\* The process of slot i ends with the given status after logging evs.
Exit(i, status, evs) ==
    /\ pc' = [pc EXCEPT ![i] = status]
    /\ log' = [log EXCEPT ![i] = @ \o evs]
    /\ listener' = [listener EXCEPT ![i] = AtExit(@)]
    /\ pend' = [pend EXCEPT ![i] = {}]

\* The process of slot i goes on at statement to after logging evs.
Goto(i, to, evs) ==
    /\ pc' = [pc EXCEPT ![i] = to]
    /\ log' = [log EXCEPT ![i] = @ \o evs]

Conf == <<do_daemonize, blank_on_exit, root, pidfile0>>

Init ==
    /\ do_daemonize \in BOOLEAN
    /\ blank_on_exit \in BOOLEAN
    /\ root \in BOOLEAN
    /\ pidfile \in {Absent, File(FormatPid(0)), File(FormatPid(StalePid)),
                    File(FormatPid(ForeignPid))}
    /\ pidfile0 = pidfile
    /\ pc = [i \in Procs |-> "idle"]
    /\ restart = [i \in Procs |-> FALSE]
    /\ gen = [i \in Procs |-> 0]
    /\ rd = [i \in Procs |-> NoneVal]
    /\ bound = [i \in Procs |-> FALSE]
    /\ listener = [i \in Procs |-> "unset"]
    /\ strip = [i \in Procs |-> FALSE]
    /\ pend = [i \in Procs |-> {}]
    /\ log = [i \in Procs |-> <<>>]
    /\ sigBudget = MaxSignals

\* The command line: start | stop | restart | reload, each in a process of
\* its own; reload() is restart(), and restart() is stop(True); start().
Invoke(i, c) ==
    /\ pc[i] = "idle"
    /\ pc' = [pc EXCEPT ![i] = IF c = "start" THEN "start_read" ELSE "stop_read"]
    /\ restart' = [restart EXCEPT ![i] = (c \in {"restart", "reload"})]
    /\ UNCHANGED <<Conf, pidfile, gen, rd, bound, listener, strip, pend, log,
                   sigBudget>>

\* A process executes its own code only when no signal is waiting for it.
Runs(i, at) == pc[i] = at /\ pend[i] = {}

\* ---------------------------------------------------------------- start
\* start(): open and parse the pidfile; refuse when it yields a PID.
\* Without daemonize, __init__ returned before setting daemon_pidfile, and
\* reading the attribute raises.
StartRead(i) ==
    /\ Runs(i, "start_read")
    /\ IF ~do_daemonize
       THEN /\ Exit(i, "raised", <<"AttributeError">>)
            /\ UNCHANGED rd
       ELSE LET p == ReadPid(pidfile) IN
            /\ rd' = [rd EXCEPT ![i] = p]
            /\ IF Truthy(p)
               THEN Exit(i, "exit1", <<"already_running">>)
               ELSE /\ Goto(i, "dz_fork1", <<>>)
                    /\ UNCHANGED <<listener, pend>>
    /\ UNCHANGED <<Conf, pidfile, restart, gen, bound, strip, sigBudget>>

\* os.fork() in the process of slot i: the parent leaves with sys.exit(0)
\* and the slot continues as the child, which has a new PID and no pending
\* signal.
ForkChild(i) ==
    /\ gen' = [gen EXCEPT ![i] = @ + 1]
    /\ pend' = [pend EXCEPT ![i] = {}]
    /\ UNCHANGED listener

\* daemonize(): the first fork, then chdir, setsid, umask in the child.
Fork1(i) ==
    /\ Runs(i, "dz_fork1")
    /\ \E ok \in BOOLEAN :
         IF ~do_daemonize
         THEN /\ Goto(i, "run", <<>>)
              /\ UNCHANGED <<gen, listener, pend>>
         ELSE IF ok
         THEN /\ ForkChild(i)
              /\ Goto(i, "dz_fork2", <<"fork1", "setsid">>)
         ELSE /\ Exit(i, "exit1", <<"fork1_failed">>)
              /\ UNCHANGED gen
    /\ UNCHANGED <<Conf, pidfile, restart, rd, bound, strip, sigBudget>>

\* daemonize(): the second fork, then the redirection of the streams.
Fork2(i) ==
    /\ Runs(i, "dz_fork2")
    /\ \E ok \in BOOLEAN :
         IF ok
         THEN /\ ForkChild(i)
              /\ Goto(i, "dz_bind", <<"fork2", "redirect">>)
         ELSE /\ Exit(i, "exit1", <<"fork2_failed">>)
              /\ UNCHANGED gen
    /\ UNCHANGED <<Conf, pidfile, restart, rd, bound, strip, sigBudget>>

\* daemonize(): signal.signal for SIGINT, SIGTERM and SIGHUP.
BindSignals(i) ==
    /\ Runs(i, "dz_bind")
    /\ bound' = [bound EXCEPT ![i] = TRUE]
    /\ Goto(i, "dz_write", <<"bind">>)
    /\ UNCHANGED <<Conf, pidfile, restart, gen, rd, listener, strip, pend,
                   sigBudget>>

\* Mutant: the pidfile gets the PID of the process that forked this one.
WritePidfileParentPid(i) ==
    /\ Runs(i, "dz_write")
    /\ pidfile' = File(FormatPid(PidOf(i, gen[i] - 1)))
    /\ Goto(i, "run", <<"write">>)
    /\ UNCHANGED <<Conf, restart, gen, rd, bound, listener, strip, pend,
                   sigBudget>>

\* daemonize(): create the pidfile with the PID of this process.
WritePidfile(i) ==
    /\ Runs(i, "dz_write")
    /\ pidfile' = File(FormatPid(Pid(i)))
    /\ Goto(i, "run", <<"write">>)
    /\ UNCHANGED <<Conf, restart, gen, rd, bound, listener, strip, pend,
                   sigBudget>>

\* run(): refuse elevated privileges, else create the queue and start the
\* listener child.
RunSpawn(i) ==
    /\ Runs(i, "run")
    /\ IF root
       THEN Exit(i, "raised", <<"root_refused">>)
       ELSE /\ listener' = [listener EXCEPT ![i] = "alive"]
            /\ Goto(i, "run_strip", <<"spawn">>)
            /\ UNCHANGED pend
    /\ UNCHANGED <<Conf, pidfile, restart, gen, rd, bound, strip, sigBudget>>

\* run(): create the strip and enter animate(), which never returns.
RunStrip(i) ==
    /\ Runs(i, "run_strip")
    /\ strip' = [strip EXCEPT ![i] = TRUE]
    /\ Goto(i, "animate", <<"animate">>)
    /\ UNCHANGED <<Conf, pidfile, restart, gen, rd, bound, listener, pend,
                   sigBudget>>

\* ----------------------------------------------------------------- stop
\* stop(): open and parse the pidfile.
StopRead(i) ==
    /\ Runs(i, "stop_read")
    /\ IF ~do_daemonize
       THEN /\ Exit(i, "raised", <<"AttributeError">>)
            /\ UNCHANGED rd
       ELSE LET p == ReadPid(pidfile) IN
            /\ rd' = [rd EXCEPT ![i] = p]
            /\ Goto(i, IF Truthy(p) THEN "stop_kill" ELSE "stop_nopid", <<>>)
            /\ UNCHANGED <<listener, pend>>
    /\ UNCHANGED <<Conf, pidfile, restart, gen, bound, strip, sigBudget>>

\* Mutant: restart() does not go on with start().
AfterStopNoStart(i) == "returned"

\* Where stop() goes when it returns: restart() goes on with start().
AfterStop(i) == IF restart[i] THEN "start_read" ELSE "returned"

\* Mutant: the warning is written whether or not this is a restart.
StopNoPidAlwaysWarns(i) ==
    /\ Runs(i, "stop_nopid")
    /\ pidfile' = Absent
    /\ Goto(i, AfterStop(i), <<"warn_not_running">>)
    /\ UNCHANGED <<Conf, restart, gen, rd, bound, listener, strip, pend,
                   sigBudget>>

\* stop(), no PID read: remove a pidfile that exists, warn unless this is
\* a restart, and return.
StopNoPid(i) ==
    /\ Runs(i, "stop_nopid")
    /\ pidfile' = Absent
    /\ Goto(i, AfterStop(i), IF restart[i] THEN <<>> ELSE <<"warn_not_running">>)
    /\ UNCHANGED <<Conf, restart, gen, rd, bound, listener, strip, pend,
                   sigBudget>>

\* Mutant: a refused signal is taken for a missing process.
KillResultNoEperm(p) ==
    IF LiveProcs(p) # {} THEN "ok"
    ELSE IF p = ForeignPid THEN (IF root THEN "ok" ELSE "esrch")
    ELSE "esrch"

\* os.kill(pid, sig) from slot i: "ok" (delivered), "esrch"
\* (ProcessLookupError) or "eperm" (PermissionError).
KillResult(p) ==
    IF LiveProcs(p) # {} THEN "ok"
    ELSE IF p = ForeignPid THEN (IF root THEN "ok" ELSE "eperm")
    ELSE "esrch"

\* stop(): os.kill(pid, SIGTERM), then time.sleep(0.3).
StopKill(i) ==
    /\ Runs(i, "stop_kill")
    /\ LET r == KillResult(rd[i]) IN
       IF r = "ok"
       THEN /\ pend' = [j \in Procs |->
                          IF j \in LiveProcs(rd[i]) THEN pend[j] \cup {"term"}
                          ELSE pend[j]]
            /\ Goto(i, "stop_probe", <<"SIGTERM">>)
            /\ UNCHANGED listener
       ELSE IF r = "eperm"
       THEN Exit(i, "exit1", <<"warn_unable_to_kill">>)
       ELSE /\ Goto(i, "stop_remove", <<>>)
            /\ UNCHANGED <<listener, pend>>
    /\ UNCHANGED <<Conf, pidfile, restart, gen, rd, bound, strip, sigBudget>>

\* Mutant: the pidfile is removed although the target is still alive.
StopProbeRemovesOnHang(i) ==
    /\ Runs(i, "stop_probe")
    /\ LET r == KillResult(rd[i]) IN
       IF r = "ok"
       THEN /\ Exit(i, "exit1", <<"warn_hung">>)
            /\ pidfile' = Absent
       ELSE IF r = "eperm"
       THEN /\ Exit(i, "exit1", <<"warn_unable_to_kill">>)
            /\ UNCHANGED pidfile
       ELSE /\ Goto(i, "stop_remove", <<>>)
            /\ UNCHANGED <<listener, pend, pidfile>>
    /\ UNCHANGED <<Conf, restart, gen, rd, bound, strip, sigBudget>>

\* Mutant: a hung target is reported and stop() returns to its caller.
StopProbeReturnsOnHang(i) ==
    /\ Runs(i, "stop_probe")
    /\ LET r == KillResult(rd[i]) IN
       IF r = "ok"
       THEN /\ Goto(i, AfterStop(i), <<"warn_hung">>)
            /\ UNCHANGED <<listener, pend>>
       ELSE IF r = "eperm"
       THEN Exit(i, "exit1", <<"warn_unable_to_kill">>)
       ELSE /\ Goto(i, "stop_remove", <<>>)
            /\ UNCHANGED <<listener, pend>>
    /\ UNCHANGED <<Conf, pidfile, restart, gen, rd, bound, strip, sigBudget>>

\* stop(): after the sleep, isalive = (os.kill(pid, 0) == None); a live
\* target is reported hung.
StopProbe(i) ==
    /\ Runs(i, "stop_probe")
    /\ LET r == KillResult(rd[i]) IN
       IF r = "ok"
       THEN Exit(i, "exit1", <<"warn_hung">>)
       ELSE IF r = "eperm"
       THEN Exit(i, "exit1", <<"warn_unable_to_kill">>)
       ELSE /\ Goto(i, "stop_remove", <<>>)
            /\ UNCHANGED <<listener, pend>>
    /\ UNCHANGED <<Conf, pidfile, restart, gen, rd, bound, strip, sigBudget>>

\* Mutant: the pidfile of a dead target is left in place.
StopRemoveKeeps(i) ==
    /\ Runs(i, "stop_remove")
    /\ Goto(i, AfterStop(i), <<>>)
    /\ UNCHANGED <<Conf, pidfile, restart, gen, rd, bound, listener, strip,
                   pend, sigBudget>>

\* stop(), target not alive: remove the pidfile if it exists, and return.
StopRemove(i) ==
    /\ Runs(i, "stop_remove")
    /\ pidfile' = Absent
    /\ Goto(i, AfterStop(i), <<>>)
    /\ UNCHANGED <<Conf, restart, gen, rd, bound, listener, strip, pend,
                   sigBudget>>

\* -------------------------------------------------------------- signals
\* An operator sends SIGINT/SIGTERM ("term") or SIGHUP ("hup") to a daemon
\* that has bound its handlers.
OpSignal(j, s) ==
    /\ sigBudget > 0
    /\ Alive(j) /\ bound[j]
    /\ s \notin pend[j]
    /\ pend' = [pend EXCEPT ![j] = @ \cup {s}]
    /\ sigBudget' = sigBudget - 1
    /\ UNCHANGED <<Conf, pidfile, pc, restart, gen, rd, bound, listener, strip,
                   log>>

\* Mutant: cleanup() starts at the interrupt and never blanks the output.
CleanupEntryNoBlank == "cl_int"

\* The first statement of cleanup().
CleanupEntry == IF blank_on_exit THEN "cl_blank" ELSE "cl_int"

\* The handler of a waiting signal starts: cleanup(signum, frame) for
\* SIGINT/SIGTERM; for SIGHUP reload(signum, frame), which raises TypeError
\* as reload(self) takes no further argument.  Without a bound handler the
\* signal's default action ends the process.
Deliver(j, s) ==
    /\ Alive(j)
    /\ s \in pend[j]
    /\ IF ~bound[j]
       THEN /\ Exit(j, "killed", <<>>)
            /\ UNCHANGED restart
       ELSE IF s = "term"
       THEN /\ pend' = [pend EXCEPT ![j] = @ \ {s}]
            /\ Goto(j, CleanupEntry, <<"cleanup">>)
            /\ UNCHANGED <<listener, restart>>
       ELSE /\ Exit(j, "raised", <<"SIGHUP", "TypeError">>)
            /\ UNCHANGED restart
    /\ UNCHANGED <<Conf, pidfile, gen, rd, bound, strip, sigBudget>>

\* -------------------------------------------------------------- cleanup
\* cleanup(): self.strip.blank_strip() when blank_on_exit.
CleanupBlank(i) ==
    /\ Runs(i, "cl_blank")
    /\ IF strip[i]
       THEN /\ Goto(i, "cl_int", <<"blank">>)
            /\ UNCHANGED <<listener, pend>>
       ELSE Exit(i, "raised", <<"AttributeError">>)
    /\ UNCHANGED <<Conf, pidfile, restart, gen, rd, bound, strip, sigBudget>>

\* cleanup(): os.kill(self.listener_thread.pid, signal.SIGINT).  The child
\* either ends within the timeout of the join or does not react.
CleanupInterrupt(i) ==
    /\ Runs(i, "cl_int")
    /\ \E obeys \in BOOLEAN :
         CASE listener[i] = "unset" ->
                Exit(i, "raised", <<"AttributeError">>)
           [] listener[i] = "exited" ->
                Exit(i, "raised", <<"ProcessLookupError">>)
           [] listener[i] = "alive" ->
                /\ listener' = [listener EXCEPT ![i] =
                                  IF obeys THEN "stopping" ELSE "deaf"]
                /\ Goto(i, "cl_join", <<"SIGINT">>)
                /\ UNCHANGED pend
           [] OTHER ->
                /\ Goto(i, "cl_join", <<"SIGINT">>)
                /\ UNCHANGED <<listener, pend>>
    /\ UNCHANGED <<Conf, pidfile, restart, gen, rd, bound, strip, sigBudget>>

\* What join() leaves of the child: one that ended, or was killed, is
\* reaped; one that does not react is still there when the timeout passes.
Joined(l) == IF l \in {"stopping", "killed"} THEN "exited" ELSE l

\* cleanup(): self.listener_thread.join(timeout=0.25) returns when the
\* child has ended or the timeout has passed.
CleanupJoin(i) ==
    /\ Runs(i, "cl_join")
    /\ listener' = [listener EXCEPT ![i] = Joined(@)]
    /\ Goto(i, "cl_alive",
            IF Joined(listener[i]) \in ChildLive THEN <<"join_timeout">>
            ELSE <<"join_ended">>)
    /\ UNCHANGED <<Conf, pidfile, restart, gen, rd, bound, strip, pend,
                   sigBudget>>

\* Mutant: no escalation; a child that is still alive is left alone.
CleanupKillNever(i) ==
    /\ Runs(i, "cl_alive")
    /\ Goto(i, "cl_remove", <<>>)
    /\ UNCHANGED <<Conf, pidfile, restart, gen, rd, bound, listener, strip,
                   pend, sigBudget>>

\* cleanup(): if is_alive(), SIGKILL the child and print the warning.
CleanupKill(i) ==
    /\ Runs(i, "cl_alive")
    /\ IF listener[i] \in ChildLive
       THEN /\ listener' = [listener EXCEPT ![i] = "killed"]
            /\ Goto(i, "cl_remove", <<"SIGKILL", "warn_sigkill">>)
       ELSE /\ Goto(i, "cl_remove", <<>>)
            /\ UNCHANGED listener
    /\ UNCHANGED <<Conf, pidfile, restart, gen, rd, bound, strip, pend,
                   sigBudget>>

\* Mutant: FileNotFoundError is not caught.
CleanupRemoveStrict(i) ==
    /\ Runs(i, "cl_remove")
    /\ IF pidfile.exists
       THEN /\ pidfile' = Absent
            /\ Exit(i, "exit0", <<"remove", "exit0">>)
       ELSE /\ Exit(i, "raised", <<"FileNotFoundError">>)
            /\ UNCHANGED pidfile
    /\ UNCHANGED <<Conf, restart, gen, rd, bound, strip, sigBudget>>

\* cleanup(): remove the pidfile, tolerating its absence; print, close the
\* streams, sys.exit(0).
CleanupRemove(i) ==
    /\ Runs(i, "cl_remove")
    /\ pidfile' = Absent
    /\ Exit(i, "exit0",
            <<IF pidfile.exists THEN "remove" ELSE "remove_noent", "exit0">>)
    /\ UNCHANGED <<Conf, restart, gen, rd, bound, strip, sigBudget>>

\* ------------------------------------------------------- specification
Commands == {"start", "stop", "restart", "reload"}
Signals == {"term", "hup"}

Next ==
    \E i \in Procs :
        \/ \E c \in Commands : Invoke(i, c)
        \/ StartRead(i)
        \/ Fork1(i)
        \/ Fork2(i)
        \/ BindSignals(i)
        \/ WritePidfile(i)
        \/ RunSpawn(i)
        \/ RunStrip(i)
        \/ StopRead(i)
        \/ StopNoPid(i)
        \/ StopKill(i)
        \/ StopProbe(i)
        \/ StopRemove(i)
        \/ \E s \in Signals : OpSignal(i, s)
        \/ \E s \in Signals : Deliver(i, s)
        \/ CleanupBlank(i)
        \/ CleanupInterrupt(i)
        \/ CleanupJoin(i)
        \/ CleanupKill(i)
        \/ CleanupRemove(i)

Spec == Init /\ [][Next]_vars

TypeOK ==
    /\ pidfile.exists \in BOOLEAN
    /\ \A i \in Procs :
         /\ listener[i] \in ListenerStates
         /\ gen[i] \in 0..2
         /\ pend[i] \subseteq Signals

\* ---------------------------------------------------------- properties
Last(s) == s[Len(s)]
Has(s, e) == \E k \in 1..Len(s) : s[k] = e

\* The exit status of a process that has ended: sys.exit(n) gives n, a
\* return from the command gives 0, an uncaught exception gives 1.
ExitStatus(at) ==
    CASE at \in {"exit0", "returned"} -> 0
      [] at \in {"exit1", "raised"} -> 1
      [] OTHER -> -1

\* The process of slot i executes the statement it is at.
Steps(i, at) == Runs(i, at) /\ pc'[i] # at

\* Past daemonize(): Daemonized or Running.
Daemonized(i) == pc[i] \in {"run", "run_strip", "animate"}

\* C1: a start() that finds a pidfile holding a non-zero PID exits with
\* status 1 and has done nothing else: no fork, no handler bound, no child
\* spawned, the pidfile as it was.
C1_SingletonEnforcement ==
    [][\A i \in Procs :
         (Steps(i, "start_read") /\ pidfile.exists /\ ReadPid(pidfile) # 0)
         => /\ pc'[i] \in Terminal /\ ExitStatus(pc'[i]) = 1
            /\ gen'[i] = gen[i]
            /\ bound'[i] = bound[i]
            /\ listener'[i] = listener[i]
            /\ ~Has(log'[i], "fork1") /\ ~Has(log'[i], "bind")
            /\ ~Has(log'[i], "spawn")
            /\ pidfile' = pidfile]_vars

\* C1's case: a start() refused a pidfile that held a PID.
C1_Witness ==
    \E i \in Procs :
        /\ pc[i] = "exit1"
        /\ log[i] = <<"already_running">>
        /\ pidfile.exists /\ ReadPid(pidfile) = rd[i] /\ rd[i] > 0

\* C2: starting from no pidfile, at most one instance is past daemonize()
\* at any time.
C2_MutualExclusion ==
    (~pidfile0.exists) => Cardinality({i \in Procs : Daemonized(i)}) <= 1

\* C3: the pidfile is never removed while the listener child of the daemon
\* it names is alive.
C3_ChildGoneBeforeRemoval ==
    [][(pidfile.exists /\ ~pidfile'.exists)
       => \A j \in Procs :
            (Daemonized(j) /\ Pid(j) = ReadPid(pidfile))
            => listener[j] \notin ChildLive]_vars

\* C4: a hang-up delivered to a running daemon makes it enter
\* stop(restart=true), after which start() follows.
C4_HangupRestarts ==
    [][\A j \in Procs :
         (Alive(j) /\ bound[j] /\ "hup" \in pend[j] /\ "hup" \notin pend'[j])
         => (pc'[j] = "stop_read" /\ restart'[j])]_vars

\* C5: cleanup() sends the child an interrupt, waits for it once, with a
\* timeout, kills it and warns exactly when it is still alive after the
\* wait, and then removes the pidfile and exits with status 0, whatever the
\* child does: none of these steps waits for the child.
C5_BoundedEscalation ==
    /\ [](\A i \in Procs :
            /\ Runs(i, "cl_join") => ENABLED CleanupJoin(i)
            /\ Runs(i, "cl_alive") => ENABLED CleanupKill(i)
            /\ Runs(i, "cl_remove") => ENABLED CleanupRemove(i))
    /\ [][\A i \in Procs :
            /\ (Steps(i, "cl_int") /\ listener[i] \in ChildLive)
               => /\ pc'[i] = "cl_join"
                  /\ log'[i] = Append(log[i], "SIGINT")
            /\ Steps(i, "cl_join")
               => /\ pc'[i] = "cl_alive"
                  /\ ~Has(log[i], "SIGKILL") => ~Has(log'[i], "SIGKILL")
            /\ Steps(i, "cl_alive")
               => /\ pc'[i] = "cl_remove"
                  /\ listener'[i] \notin ChildLive
                  /\ IF Last(log[i]) = "join_timeout"
                     THEN log'[i] = log[i] \o <<"SIGKILL", "warn_sigkill">>
                     ELSE log'[i] = log[i]
                  /\ (Last(log[i]) = "join_timeout") <=> (listener[i] \in ChildLive)
            /\ Steps(i, "cl_remove")
               => /\ pc'[i] = "exit0"
                  /\ ~pidfile'.exists]_vars

\* C5's case: a child that did not react was killed, and cleanup() went on
\* to exit with status 0.
C5_Witness ==
    \E i \in Procs :
        /\ pc[i] = "exit0"
        /\ Has(log[i], "join_timeout") /\ Has(log[i], "warn_sigkill")

\* C6: a stop() whose target is alive at the probe reports the hang, exits
\* with status 1 and leaves the pidfile as it is; so does every further
\* stop() that finds the same.
C6_HungTarget ==
    [][\A i \in Procs :
         (Steps(i, "stop_probe")
            /\ (LiveProcs(rd[i]) # {} \/ (rd[i] = ForeignPid /\ root)))
         => /\ pc'[i] = "exit1"
            /\ log'[i] = Append(log[i], "warn_hung")
            /\ pidfile' = pidfile]_vars

\* C6's case: two stop() calls found the same live target; both reported
\* the hang, and the pidfile still names it.
C6_Witness ==
    /\ \A i \in Procs : pc[i] = "exit1" /\ log[i] = <<"SIGTERM", "warn_hung">>
    /\ pidfile = pidfile0 /\ ReadPid(pidfile) = ForeignPid

C9_CleanupIdempotent ==
    [][\A i \in Procs :
         (Steps(i, "cl_remove") /\ ~pidfile.exists)
         => /\ pc'[i] = "exit0"
            /\ listener'[i] \notin ChildLive
            /\ ~pidfile'.exists]_vars

\* C9's case: a running daemon whose pidfile was gone ran cleanup() to its
\* end.
C9_Witness ==
    \E i \in Procs :
        /\ pc[i] = "exit0"
        /\ Has(log[i], "spawn") /\ Has(log[i], "remove_noent")

\* C10: with no pidfile, the stop() phase of restart() changes nothing (no
\* warning, no signal, no file) and hands over to start() in the state of
\* a process that was started afresh.
C10_RestartComposition ==
    /\ [][\A i \in Procs :
            (restart[i] /\ ~pidfile.exists /\ do_daemonize
               /\ (Steps(i, "stop_read") \/ Steps(i, "stop_nopid")))
            => /\ pc'[i] = (IF pc[i] = "stop_read" THEN "stop_nopid"
                            ELSE "start_read")
               /\ UNCHANGED <<pidfile, gen, bound, listener, strip, pend, log,
                              sigBudget>>]_vars
    /\ [](\A i \in Procs :
            (pc[i] = "start_read" /\ restart[i] /\ rd[i] = NoneVal)
            => /\ log[i] = <<>> /\ gen[i] = 0 /\ ~bound[i]
               /\ listener[i] = "unset" /\ ~strip[i] /\ pend[i] = {})

\* C10's case: a restart() that found no pidfile has become a running
\* daemon by the steps of start().
C10_Witness ==
    \E i \in Procs :
        /\ restart[i] /\ pc[i] = "animate" /\ ~pidfile0.exists
        /\ log[i] = <<"fork1", "setsid", "fork2", "redirect", "bind", "write",
                      "spawn", "animate">>

\* C11: with daemonize = false, a start() that finds no pidfile skips the
\* detach sequence and goes on to run().
C11_ForegroundStart ==
    [][\A i \in Procs :
         (Steps(i, "start_read") /\ ~do_daemonize /\ ~pidfile.exists)
         => /\ pc'[i] \notin Terminal
            /\ gen'[i] = gen[i]
            /\ ~Has(log'[i], "fork1") /\ ~Has(log'[i], "setsid")
            /\ ~Has(log'[i], "redirect")]_vars

\* C12: a stop() whose signal to the PID of the pidfile is refused reports
\* it, exits with status 1 and leaves the pidfile as it is.
C12_SignalDenied ==
    [][\A i \in Procs :
         ((Steps(i, "stop_kill") \/ Steps(i, "stop_probe"))
            /\ rd[i] = ForeignPid /\ ~root)
         => /\ pc'[i] = "exit1"
            /\ log'[i] = Append(log[i], "warn_unable_to_kill")
            /\ pidfile' = pidfile]_vars

\* C12's case: a stop() was refused, and the pidfile still holds the PID it
\* could not signal.
C12_Witness ==
    \E i \in Procs :
        /\ pc[i] = "exit1" /\ log[i] = <<"warn_unable_to_kill">>
        /\ ~root /\ rd[i] = ForeignPid
        /\ pidfile.exists /\ ReadPid(pidfile) = ForeignPid

\* The statements of cleanup().
CleanupPcs == {"cl_blank", "cl_int", "cl_join", "cl_alive", "cl_remove"}

\* C13: once the handlers are bound, a cleanup() started by an interrupt
\* or terminate signal at any point of the daemon's life does not raise.
C13_HandlerSafe ==
    [][\A i \in Procs :
         (pc[i] \in CleanupPcs /\ Steps(i, pc[i])) => pc'[i] # "raised"]_vars

\* The steps of cleanup() as they appear in the log of a process.
CleanupSteps == {"blank", "SIGINT", "join_timeout", "join_ended", "SIGKILL",
                 "warn_sigkill", "remove", "remove_noent", "exit0"}
IsCleanupStep(e) == e \in CleanupSteps

\* The position of the last entry into cleanup() in a log, 0 if none.
LastEntry(s) ==
    IF Has(s, "cleanup")
    THEN CHOOSE k \in 1..Len(s) :
           s[k] = "cleanup" /\ \A m \in (k + 1)..Len(s) : s[m] # "cleanup"
    ELSE 0

\* The steps taken by the latest execution of cleanup() in a log.
CleanupRun(s) ==
    SelectSeq(SubSeq(s, LastEntry(s) + 1, Len(s)), IsCleanupStep)

IsPrefix(s, t) == Len(s) <= Len(t) /\ s = SubSeq(t, 1, Len(s))

\* The orders of steps the claim allows: blank only when blank_on_exit,
\* the interrupt, the wait, the kill when the wait timed out, the removal,
\* the exit.
CleanupOrders ==
    { (IF blank_on_exit THEN <<"blank">> ELSE <<>>)
        \o <<"SIGINT", j>>
        \o (IF j = "join_timeout" THEN <<"SIGKILL", "warn_sigkill">> ELSE <<>>)
        \o <<r, "exit0">> :
      j \in {"join_timeout", "join_ended"}, r \in {"remove", "remove_noent"} }

\* C14: the steps of every execution of cleanup() are taken in the order
\* blank (when blank_on_exit), interrupt, wait, conditional kill, remove,
\* exit 0, with none left out in between; an execution that reaches its
\* exit has taken them all.
C14_CleanupOrder ==
    \A i \in Procs :
        Has(log[i], "cleanup")
        => /\ \E o \in CleanupOrders : IsPrefix(CleanupRun(log[i]), o)
           /\ pc[i] = "exit0" => CleanupRun(log[i]) \in CleanupOrders

\* C14's case: a cleanup() that blanked, interrupted, waited, killed,
\* removed and exited.
C14_Witness ==
    \E i \in Procs :
        /\ pc[i] = "exit0" /\ blank_on_exit
        /\ CleanupRun(log[i]) = <<"blank", "SIGINT", "join_timeout", "SIGKILL",
                                  "warn_sigkill", "remove", "exit0">>

\* C15: a restart() whose target is still alive at the probe exits with
\* status 1 there, leaving the pidfile as it is; it never goes on to
\* start(): it has not forked, bound a handler or spawned a child.
C15_RestartHung ==
    /\ [][\A i \in Procs :
            (Steps(i, "stop_probe") /\ restart[i]
               /\ (LiveProcs(rd[i]) # {} \/ (rd[i] = ForeignPid /\ root)))
            => /\ pc'[i] \in Terminal /\ ExitStatus(pc'[i]) = 1
               /\ pidfile' = pidfile
               /\ gen'[i] = gen[i]]_vars
    /\ [](\A i \in Procs :
            (restart[i] /\ Has(log[i], "warn_hung"))
            => /\ pc[i] = "exit1" /\ Last(log[i]) = "warn_hung"
               /\ gen[i] = 0 /\ ~bound[i] /\ listener[i] = "unset"
               /\ ~Has(log[i], "fork1") /\ ~Has(log[i], "write"))

\* C15's case: a restart() gave up on a daemon that was still running when
\* probed; the pidfile names that daemon and there is no second instance.
C15_Witness ==
    \E i, j \in Procs :
        /\ restart[i] /\ pc[i] = "exit1"
        /\ log[i] = <<"SIGTERM", "warn_hung">>
        /\ j # i /\ Alive(j) /\ Pid(j) = rd[i] /\ Has(log[j], "write")
        /\ pidfile.exists /\ ReadPid(pidfile) = Pid(j)

\* The log of a process that has come through daemonize() up to the
\* binding of the handlers.
Detached == <<"fork1", "setsid", "fork2", "redirect", "bind">>

IsSuffix(s, t) ==
    Len(s) <= Len(t) /\ s = SubSeq(t, Len(t) - Len(s) + 1, Len(t))

\* C16: the pidfile is created only by the write at the end of
\* daemonize(), by a process that is the child of the second fork and has
\* bound its handlers; the PID written is its own, and it is the process
\* that goes on to run().  A failed fork ends the process with status 1,
\* with no pidfile written and no further fork.
C16_WriteAfterDetach ==
    /\ [][/\ (pidfile' # pidfile /\ pidfile'.exists)
               => \E i \in Procs : Steps(i, "dz_write")
          /\ \A i \in Procs :
               /\ Steps(i, "dz_write")
                  => /\ gen[i] = 2 /\ bound[i] /\ IsSuffix(Detached, log[i])
                     /\ pidfile'.exists /\ ReadPid(pidfile') = Pid(i)
                     /\ pc'[i] = "run" /\ gen'[i] = gen[i]
               /\ ((Steps(i, "dz_fork1") \/ Steps(i, "dz_fork2"))
                     /\ do_daemonize /\ gen'[i] = gen[i])
                  => /\ pc'[i] = "exit1" /\ pidfile' = pidfile
                     /\ Last(log'[i]) \in {"fork1_failed", "fork2_failed"}]_vars
    /\ [](\A i \in Procs :
            /\ Has(log[i], "spawn") => gen[i] = 2 /\ Has(log[i], "write")
            /\ (Has(log[i], "fork1_failed") \/ Has(log[i], "fork2_failed"))
               => /\ pc[i] = "exit1" /\ ~Has(log[i], "write")
                  /\ IF Has(log[i], "fork1")
                     THEN IsSuffix(<<"fork1", "setsid", "fork2_failed">>,
                                   log[i])
                     ELSE Last(log[i]) = "fork1_failed")

\* C16's case: one start() detached, wrote its own PID and entered run();
\* another failed at its second fork and left without writing.
C16_Witness ==
    \E i, j \in Procs :
        /\ Daemonized(i) /\ gen[i] = 2 /\ Has(log[i], "write")
        /\ pidfile.exists /\ ReadPid(pidfile) = Pid(i)
        /\ pc[j] = "exit1" /\ log[j] = <<"fork1", "setsid", "fork2_failed">>

\* The ways a start() ends without a running daemon.
FailedStart == {"already_running", "fork1_failed", "fork2_failed",
                "root_refused"}

\* C17: a start() that has ended in a refusal or a failed fork has not
\* written the pidfile, the pidfile does not name it, and it has left no
\* listener child.
C17_FailedStartNoTrace ==
    \A i \in Procs :
        (pc[i] \in Terminal /\ log[i] # <<>> /\ Last(log[i]) \in FailedStart)
        => /\ ~Has(log[i], "write")
           /\ ~(pidfile.exists /\ ReadPid(pidfile) = Pid(i))
           /\ listener[i] \notin ChildLive

\* C18: whenever a daemonized instance is running, the pidfile exists and
\* holds the PID of that instance.
C18_PidfileTracksInstance ==
    \A i \in Procs :
        (pc[i] = "animate" /\ Has(log[i], "write"))
        => pidfile.exists /\ ReadPid(pidfile) = Pid(i)

====
